---- MODULE Spec2Model ----
(***************************************************************************)
(* Model of the declarative CLI package (dcli): the schema builder         *)
(* (schema.py: Arg, NodeBase, RootNode, SubNode) and the two front-ends    *)
(* that resolve a token list against a built schema (clis/standard.py,     *)
(* clis/bot.py).  A behaviour is: RootNode.from_dict on a raw             *)
(* configuration, then one parse_args call followed statement by           *)
(* statement through the keyword walk, then help output or argument        *)
(* binding.  The argparse calls the front-ends make are modelled by what   *)
(* CPython's argparse does for the argument kinds the front-ends declare.  *)
(***************************************************************************)
EXTENDS Integers, Sequences, FiniteSets, TLC

\* Longest token list handed to parse_args.
MaxLen == 3

\* Python's None where the value is otherwise a string (keyword, command,
\* prog, an unset option value); it is not a token and not a keyword.
None == "<None>"

\* Python's None where the value is otherwise a node (NodeBase.parent).
\* Nodes are numbered from 1 in order of creation.
NoNode == 0

\* sys.exit has not been called.
NoExit == -1

\* The strings a token of the input can be (the empty string is one).
Tokens ==
    {"status", "sub", "a", "c", "more", "verbose", "help", "?", "",
     "-h", "--help", "--x", "--verbose"}

\* The tokens whose first character is '-' (argparse's prefix_chars).
DashTokens == {"-h", "--help", "--x", "--verbose"}

RECURSIVE SeqsUpTo(_)
SeqsUpTo(n) ==
    IF n = 0 THEN {<<>>}
    ELSE LET shorter == SeqsUpTo(n - 1)
         IN  shorter \cup {Append(s, t) : s \in {u \in shorter : Len(u) = n - 1}, t \in Tokens}

\* The token lists parse_args is called with.
ArgLists == SeqsUpTo(MaxLen)

(***************************************************************************)
(* Raw configurations (what yaml.safe_load returns): dictionaries, a key   *)
(* that is absent from the dictionary is absent from the record.           *)
(***************************************************************************)

\* root -> {status (flag verbose), sub (--x with enum, text rest) -> {a (positional name)}}
CfgMain ==
    [help |-> "root",
     subtree |-> <<
        [keyword |-> "status", help |-> "show status", command |-> "show_status",
         args |-> << [name |-> "verbose", help |-> "v", type |-> "flag"] >>],
        [keyword |-> "sub", help |-> "sub mode", command |-> "run_sub",
         args |-> << [name |-> "x", help |-> "x", enum |-> <<"a", "b">>],
                     [name |-> "rest", help |-> "r", positional |-> TRUE, type |-> "text"] >>,
         subtree |-> <<
            [keyword |-> "a", help |-> "leaf", command |-> "sub_a",
             args |-> << [name |-> "player-name", help |-> "n", positional |-> TRUE,
                          type |-> "string"] >>] >>] >>]

\* two siblings with the same keyword
CfgDupKeyword ==
    [help |-> "root",
     subtree |-> <<
        [keyword |-> "a", help |-> "first", command |-> "first"],
        [keyword |-> "a", help |-> "second", command |-> "second"] >>]

\* a sub-node whose keyword is given as None
CfgNoneKeyword ==
    [help |-> "root", command |-> "top",
     subtree |-> << [keyword |-> None, help |-> "anonymous", command |-> "anon"] >>]

\* a sub-node whose keyword is the empty string, with a child of its own
CfgEmptyKeyword ==
    [help |-> "root",
     subtree |-> <<
        [keyword |-> "", help |-> "empty", command |-> "empty",
         subtree |-> << [keyword |-> "a", help |-> "leaf", command |-> "leaf"] >>] >>]

\* a root that is given a keyword
CfgRootKeyword ==
    [keyword |-> "status", help |-> "root", command |-> "top"]

\* a root whose keyword key is present with the value None
CfgRootNoneKeyword ==
    [keyword |-> None, help |-> "root", command |-> "top"]

\* a sub-node with no keyword key
CfgSubNoKeyword ==
    [help |-> "root", subtree |-> << [help |-> "anonymous", command |-> "anon"] >>]

\* an argument whose type is not one of the accepted type names
CfgBadType ==
    [help |-> "root", command |-> "top",
     args |-> << [name |-> "x", help |-> "x", type |-> "bogus"] >>]

\* a node without the required help text
CfgNoHelp ==
    [command |-> "top"]

\* a root without children that declares a flag, an option and a text positional
CfgFlat ==
    [help |-> "root", command |-> "top",
     args |-> << [name |-> "verbose", help |-> "v", type |-> "flag"],
                 [name |-> "x", help |-> "x"],
                 [name |-> "more", help |-> "m", positional |-> TRUE, type |-> "text"] >>]

\* a sub-node whose second argument has a type name in the wrong case
CfgBadTypeNested ==
    [help |-> "root",
     subtree |-> <<
        [keyword |-> "a", help |-> "leaf", command |-> "leaf",
         args |-> << [name |-> "x", help |-> "x"],
                     [name |-> "more", help |-> "m", type |-> "Integer"] >>] >>]

RawConfigs ==
    << CfgMain, CfgDupKeyword, CfgNoneKeyword, CfgEmptyKeyword, CfgRootKeyword,
       CfgRootNoneKeyword, CfgSubNoKeyword, CfgBadType, CfgNoHelp, CfgFlat,
       CfgBadTypeNested >>

(***************************************************************************)
(* schema.py                                                               *)
(***************************************************************************)

\* dict.pop(key, default) / dict.get(key, default): the value, not the removal
Get(d, k, default) == IF k \in DOMAIN d THEN d[k] ELSE default

\* Arg._process_type_field: the accepted type names and the Python types they map to
accepted_types ==
    [t \in {"integer", "string", "float", "flag", "text"} |->
        CASE t = "integer" -> "int"
          [] t = "string"  -> "str"
          [] t = "float"   -> "float"
          [] t = "flag"    -> "bool"
          [] t = "text"    -> "list"]

\* a type conversion that takes every unknown type name for a string
ProcessTypeFieldLenient(value) ==
    IF value \in DOMAIN accepted_types
    THEN [err |-> "ok", val |-> accepted_types[value]]
    ELSE [err |-> "ok", val |-> "str"]

\* Arg._process_type_field(value)
ProcessTypeField(value) ==
    IF value \in DOMAIN accepted_types
    THEN [err |-> "ok", val |-> accepted_types[value]]
    ELSE [err |-> "ValueError", val |-> None]

\* Arg.__init__: the keyword-only parameters it accepts, after from_dict's renaming
ArgInitParams == {"name", "help_", "command", "positional", "type_", "enum", "default"}

\* Arg.from_dict(data): the Arg built, or the exception raised.
\* enum is <<>> for None and <<list>> for a list.
ArgFromDict(data) ==
    IF "help" \notin DOMAIN data THEN [err |-> "KeyError"]
    ELSE LET t == ProcessTypeField(Get(data, "type", "string"))
             keys == ((DOMAIN data) \ {"help", "type"}) \cup {"help_", "type_"}
         IN  IF t.err # "ok" THEN [err |-> t.err]
             ELSE IF ~(keys \subseteq ArgInitParams) \/ "name" \notin keys
                  THEN [err |-> "TypeError"]
                  ELSE [err |-> "ok",
                        val |-> [name       |-> data.name,
                                 help       |-> data.help,
                                 command    |-> Get(data, "command", None),
                                 positional |-> Get(data, "positional", FALSE),
                                 type       |-> t.val,
                                 enum       |-> IF "enum" \in DOMAIN data
                                                THEN << data.enum >> ELSE <<>>,
                                 default    |-> Get(data, "default", None)]]

\* NodeBase._process_args_field(value): [Arg.from_dict(x) for x in value]
RECURSIVE ProcessArgsField(_)
ProcessArgsField(value) ==
    IF value = <<>> THEN [err |-> "ok", val |-> <<>>]
    ELSE LET first == ArgFromDict(Head(value))
         IN  IF first.err # "ok" THEN [err |-> first.err, val |-> <<>>]
             ELSE LET rest == ProcessArgsField(Tail(value))
                  IN  IF rest.err # "ok" THEN rest
                      ELSE [err |-> "ok", val |-> <<first.val>> \o rest.val]

\* NodeBase.__init__: the keyword-only parameters it accepts, after from_dict's renaming
NodeInitParams == {"keyword", "help_", "command", "args", "subtree"}

\* a constructor that leaves the parent of the nodes of subtree unset
NodeBaseInitNoLinks(objs, keyword, help_, command, args, subtree) ==
    Append(objs, [keyword |-> keyword,
                  help    |-> help_,
                  command |-> command,
                  args    |-> IF args # <<>> THEN args ELSE <<>>,
                  subtree |-> IF subtree # <<>> THEN subtree ELSE <<>>,
                  parent  |-> NoNode])

\* NodeBase.__init__ on the objects created so far (objs): the new node is
\* appended, and every node of subtree gets it as parent.
NodeBaseInit(objs, keyword, help_, command, args, subtree) ==
    LET self == Len(objs) + 1
        created == Append(objs, [keyword |-> keyword,
                                 help    |-> help_,
                                 command |-> command,
                                 args    |-> IF args # <<>> THEN args ELSE <<>>,
                                 subtree |-> IF subtree # <<>> THEN subtree ELSE <<>>,
                                 parent  |-> NoNode])
    IN  [i \in 1..Len(created) |->
            IF \E j \in 1..Len(subtree) : subtree[j] = i
            THEN [created[i] EXCEPT !.parent = self]
            ELSE created[i]]

RECURSIVE NodeFromDict(_, _, _)
RECURSIVE ProcessSubtreeField(_, _)

\* NodeBase._process_subtree_field(value): [SubNode.from_dict(x) for x in value];
\* objs are the objects created so far, val the nodes of the list.
ProcessSubtreeField(value, objs) ==
    IF value = <<>> THEN [err |-> "ok", objs |-> objs, val |-> <<>>]
    ELSE LET first == NodeFromDict(Head(value), FALSE, objs)
         IN  IF first.err # "ok" THEN [err |-> first.err, objs |-> objs, val |-> <<>>]
             ELSE LET rest == ProcessSubtreeField(Tail(value), first.objs)
                  IN  IF rest.err # "ok" THEN rest
                      ELSE [err |-> "ok", objs |-> rest.objs,
                            val |-> <<Len(first.objs)>> \o rest.val]

\* cls.from_dict(data) for cls = RootNode (isRoot) or SubNode, followed by
\* cls.__init__: RootNode refuses a 'keyword' argument, SubNode requires one.
NodeFromDict(data, isRoot, objs) ==
    IF "help" \notin DOMAIN data THEN [err |-> "KeyError", objs |-> objs]
    ELSE LET args == ProcessArgsField(Get(data, "args", <<>>))
         IN  IF args.err # "ok" THEN [err |-> args.err, objs |-> objs]
             ELSE LET sub == ProcessSubtreeField(Get(data, "subtree", <<>>), objs)
                      keys == ((DOMAIN data) \ {"help"}) \cup {"help_", "args", "subtree"}
                  IN  IF sub.err # "ok" THEN [err |-> sub.err, objs |-> objs]
                      ELSE IF isRoot /\ "keyword" \in keys
                           THEN [err |-> "TypeError", objs |-> objs]
                      ELSE IF ~isRoot /\ "keyword" \notin keys
                           THEN [err |-> "TypeError", objs |-> objs]
                      ELSE IF ~(keys \subseteq NodeInitParams)
                           THEN [err |-> "TypeError", objs |-> objs]
                      ELSE [err  |-> "ok",
                            objs |-> NodeBaseInit(sub.objs, Get(data, "keyword", None),
                                                  data.help, Get(data, "command", None),
                                                  args.val, sub.val)]

\* RootNode.from_dict(data): the nodes created and the root among them
RootFromDict(data) ==
    LET r == NodeFromDict(data, TRUE, <<>>)
    IN  IF r.err # "ok" THEN [err |-> r.err, nodes |-> <<>>, root |-> NoNode]
        ELSE [err |-> "ok", nodes |-> r.objs, root |-> Len(r.objs)]

(***************************************************************************)
(* State                                                                   *)
(***************************************************************************)
VARIABLES
    pc,                 \* position: "init", "schema_error", "built", "walk", "walked", "done"
    data,               \* the raw configuration from_dict was called with
    schema_error,       \* the exception from_dict raised, or None
    nodes,              \* the node objects: keyword, help, command, args, subtree, parent
    schema,             \* self._schema: the root node
    frontend,           \* the CLIParser class in use: "standard" or "bot"
    prog,               \* self._prog (standard)
    args,               \* the args parse_args was called with
    remaining_args,     \* parse_args local
    consumed_args,      \* parse_args local
    node,               \* parse_args local
    show_help,          \* parse_args local
    argv_for_argparse,  \* the list handed to parser.parse_args, <<list>> once handed
    namespace,          \* attributes of the namespace: name -> value
    returned,           \* parse_args returned the namespace
    stdout,             \* what was printed to sys.stdout
    stderr,             \* what was printed to sys.stderr
    exit_status,        \* the status sys.exit was called with, or NoExit
    raised              \* the exception that left parse_args, or None

vars ==
    << pc, data, schema_error, nodes, schema, frontend, prog, args, remaining_args,
       consumed_args, node, show_help, argv_for_argparse, namespace, returned,
       stdout, stderr, exit_status, raised >>

schemaVars == << data, schema_error, nodes, schema >>
callVars == << frontend, prog, args >>
outVars == << argv_for_argparse, namespace, returned, stdout, stderr, exit_status, raised >>

Init ==
    /\ pc = "init"
    /\ data = <<>>
    /\ schema_error = None
    /\ nodes = <<>>
    /\ schema = NoNode
    /\ frontend = None
    /\ prog = None
    /\ args = <<>>
    /\ remaining_args = <<>>
    /\ consumed_args = <<>>
    /\ node = NoNode
    /\ show_help = FALSE
    /\ argv_for_argparse = <<>>
    /\ namespace = <<>>
    /\ returned = FALSE
    /\ stdout = <<>>
    /\ stderr = <<>>
    /\ exit_status = NoExit
    /\ raised = None

\* create_cli_parser / main: loaded_schema = RootNode.from_dict(yaml.safe_load(f))
FromDict(cfg) ==
    /\ pc = "init"
    /\ LET r == RootFromDict(cfg)
       IN  /\ data' = cfg
           /\ schema_error' = IF r.err = "ok" THEN None ELSE r.err
           /\ nodes' = r.nodes
           /\ schema' = r.root
           /\ pc' = IF r.err = "ok" THEN "built" ELSE "schema_error"
    /\ UNCHANGED << callVars, remaining_args, consumed_args, node, show_help, outVars >>

(***************************************************************************)
(* The keyword walk (clis/standard.py and clis/bot.py)                     *)
(***************************************************************************)

Max(S) == CHOOSE m \in S : \A n \in S : n <= m
Min(S) == CHOOSE m \in S : \A n \in S : m <= n

\* keywords = {x.keyword: x for x in node.subtree}: of two children with the
\* same keyword the dictionary keeps the later one.
Keywords(n) ==
    LET sub == nodes[n].subtree
    IN  [k \in {nodes[sub[i]].keyword : i \in 1..Len(sub)} |->
            sub[Max({i \in 1..Len(sub) : nodes[sub[i]].keyword = k})]]

\* the loop condition: while node.subtree and remaining_args
WalkCondition == nodes[node].subtree # <<>> /\ remaining_args # <<>>

\* standard.CLIParser.parse_args, up to the loop
StdParseArgs(T, p) ==
    /\ pc = "built"
    /\ frontend' = "standard"
    /\ prog' = p
    /\ args' = T
    /\ remaining_args' = T
    /\ node' = schema
    /\ consumed_args' = <<>>
    /\ show_help' = FALSE
    /\ pc' = "walk"
    /\ UNCHANGED << schemaVars, outVars >>

\* a walk that ends at the help token ('break here instead of continue')
StdWalkHelpBreaks ==
    /\ pc = "walk" /\ frontend = "standard"
    /\ WalkCondition
    /\ remaining_args[1] \in {"-h", "--help"}
    /\ show_help' = TRUE
    /\ remaining_args' = Tail(remaining_args)
    /\ pc' = "walked"
    /\ UNCHANGED << schemaVars, callVars, consumed_args, node, outVars >>

\* standard: a loop iteration whose token is '-h' or '--help'
StdWalkHelp ==
    /\ pc = "walk" /\ frontend = "standard"
    /\ WalkCondition
    /\ remaining_args[1] \in {"-h", "--help"}
    /\ show_help' = TRUE
    /\ remaining_args' = Tail(remaining_args)
    /\ UNCHANGED << pc, schemaVars, callVars, consumed_args, node, outVars >>

\* a walk that takes the keyword off the list without recording it
StdWalkKeywordUnrecorded ==
    /\ pc = "walk" /\ frontend = "standard"
    /\ WalkCondition
    /\ remaining_args[1] \notin {"-h", "--help"}
    /\ remaining_args[1] \in DOMAIN Keywords(node)
    /\ remaining_args' = Tail(remaining_args)
    /\ node' = Keywords(node)[remaining_args[1]]
    /\ UNCHANGED << pc, schemaVars, callVars, consumed_args, show_help, outVars >>

\* standard: a loop iteration whose token is the keyword of a child
StdWalkKeyword ==
    /\ pc = "walk" /\ frontend = "standard"
    /\ WalkCondition
    /\ remaining_args[1] \notin {"-h", "--help"}
    /\ remaining_args[1] \in DOMAIN Keywords(node)
    /\ consumed_args' = Append(consumed_args, remaining_args[1])
    /\ remaining_args' = Tail(remaining_args)
    /\ node' = Keywords(node)[remaining_args[1]]
    /\ UNCHANGED << pc, schemaVars, callVars, show_help, outVars >>

\* a walk that skips a token that is not a keyword and goes on
StdWalkBreakSkips ==
    /\ pc = "walk" /\ frontend = "standard"
    /\ WalkCondition
    /\ remaining_args[1] \notin {"-h", "--help"}
    /\ remaining_args[1] \notin DOMAIN Keywords(node)
    /\ remaining_args' = Tail(remaining_args)
    /\ UNCHANGED << pc, schemaVars, callVars, consumed_args, node, show_help, outVars >>

\* standard: a loop iteration whose token is neither: break
StdWalkBreak ==
    /\ pc = "walk" /\ frontend = "standard"
    /\ WalkCondition
    /\ remaining_args[1] \notin {"-h", "--help"}
    /\ remaining_args[1] \notin DOMAIN Keywords(node)
    /\ pc' = "walked"
    /\ UNCHANGED << schemaVars, callVars, remaining_args, consumed_args, node, show_help,
                    outVars >>

\* standard: the loop condition is false
StdWalkExit ==
    /\ pc = "walk" /\ frontend = "standard"
    /\ ~WalkCondition
    /\ pc' = "walked"
    /\ UNCHANGED << schemaVars, callVars, remaining_args, consumed_args, node, show_help,
                    outVars >>

\* a detection that takes 'help' at any position as the request and strips the
\* tokens at both ends
DetectHelpAnywhere(T) ==
    IF \E i \in 1..Len(T) : T[i] = "help"
    THEN [show_help |-> TRUE,
          remaining_args |-> IF Len(T) > 1 THEN SubSeq(T, 2, Len(T) - 1) ELSE <<>>]
    ELSE IF T # <<>> /\ T[Len(T)] = "?"
         THEN [show_help |-> TRUE, remaining_args |-> SubSeq(T, 1, Len(T) - 1)]
         ELSE [show_help |-> FALSE, remaining_args |-> T]

\* bot: 'Determine whether to show help output': the try block, in which an
\* index into an empty list raises IndexError and ends the block
DetectHelp(T) ==
    IF T = <<>> THEN [show_help |-> FALSE, remaining_args |-> T]
    ELSE LET first == (T[1] = "help")
             r1 == IF first THEN Tail(T) ELSE T
         IN  IF r1 = <<>> THEN [show_help |-> first, remaining_args |-> r1]
             ELSE IF r1[Len(r1)] \in {"?", "help"}
                  THEN [show_help |-> TRUE, remaining_args |-> SubSeq(r1, 1, Len(r1) - 1)]
                  ELSE [show_help |-> first, remaining_args |-> r1]

\* bot.CLIParser.parse_args, up to the loop
BotParseArgs(T) ==
    /\ pc = "built"
    /\ frontend' = "bot"
    /\ args' = T
    /\ remaining_args' = DetectHelp(T).remaining_args
    /\ show_help' = DetectHelp(T).show_help
    /\ node' = schema
    /\ consumed_args' = <<>>
    /\ pc' = "walk"
    /\ UNCHANGED << schemaVars, prog, outVars >>

\* a walk that descends into the child and leaves its keyword on the list
BotWalkKeywordKeepsToken ==
    /\ pc = "walk" /\ frontend = "bot"
    /\ WalkCondition
    /\ remaining_args[1] \in DOMAIN Keywords(node)
    /\ consumed_args' = Append(consumed_args, remaining_args[1])
    /\ node' = Keywords(node)[remaining_args[1]]
    /\ UNCHANGED << pc, schemaVars, callVars, remaining_args, show_help, outVars >>

\* bot: a loop iteration whose token is the keyword of a child
BotWalkKeyword ==
    /\ pc = "walk" /\ frontend = "bot"
    /\ WalkCondition
    /\ remaining_args[1] \in DOMAIN Keywords(node)
    /\ consumed_args' = Append(consumed_args, remaining_args[1])
    /\ remaining_args' = Tail(remaining_args)
    /\ node' = Keywords(node)[remaining_args[1]]
    /\ UNCHANGED << pc, schemaVars, callVars, show_help, outVars >>

\* bot: a loop iteration whose token is not a keyword: break
BotWalkBreak ==
    /\ pc = "walk" /\ frontend = "bot"
    /\ WalkCondition
    /\ remaining_args[1] \notin DOMAIN Keywords(node)
    /\ pc' = "walked"
    /\ UNCHANGED << schemaVars, callVars, remaining_args, consumed_args, node, show_help,
                    outVars >>

\* bot: the loop condition is false
BotWalkExit ==
    /\ pc = "walk" /\ frontend = "bot"
    /\ ~WalkCondition
    /\ pc' = "walked"
    /\ UNCHANGED << schemaVars, callVars, remaining_args, consumed_args, node, show_help,
                    outVars >>

(***************************************************************************)
(* argparse, as the front-ends use it: parser.add_argument(name, **kwargs) *)
(* with no kwargs but help, action='store_true' or nargs=REMAINDER, then   *)
(* parser.parse_args(list, namespace).                                     *)
(***************************************************************************)

\* arg.name.replace("-", "_") on the argument names of the configurations
Replace(name) == IF name = "player-name" THEN "player_name" ELSE name

\* join of a list of strings with a separator: sep.join(strs)
RECURSIVE Join(_, _)
Join(strs, sep) ==
    IF strs = <<>> THEN ""
    ELSE IF Len(strs) = 1 THEN strs[1]
    ELSE strs[1] \o sep \o Join(Tail(strs), sep)

\* the action add_argument creates for a schema argument: the name is
\* arg.name.replace("-", "_") for a positional and "--" + arg.name otherwise;
\* kind is "store_true" (nargs 0), "remainder" (nargs REMAINDER) or "store" (nargs None)
AddArgument(arg) ==
    [option_strings |-> IF arg.positional THEN {} ELSE {"--" \o arg.name},
     dest     |-> Replace(arg.name),
     kind     |-> IF arg.type = "bool" THEN "store_true"
                  ELSE IF arg.type = "list" THEN "remainder" ELSE "store",
     required |-> arg.positional]

\* the '-h', '--help' action of a parser created with add_help=True
HelpAction ==
    [option_strings |-> {"-h", "--help"}, dest |-> "help", kind |-> "help", required |-> FALSE]

\* the actions of the parser built for a node: 'for arg in node.args: parser.add_argument'
ParserFor(n, add_help) ==
    (IF add_help THEN << HelpAction >> ELSE <<>>)
    \o [i \in 1..Len(nodes[n].args) |-> AddArgument(nodes[n].args[i])]

\* arg_strings_pattern: 'O' for a string that starts with '-', 'A' otherwise
ArgStringsPattern(argv) ==
    [i \in 1..Len(argv) |-> IF argv[i] \in DashTokens THEN "O" ELSE "A"]

\* the number of arguments an action takes when it is matched: -1 stands for
\* "as many as there are" (REMAINDER)
RECURSIVE MatchGroups(_, _)
\* re.match of the nargs patterns of the actions, concatenated, at the start of
\* the pattern: the lengths of the groups, greedy from the left
MatchGroups(actions, pat) ==
    IF actions = <<>> THEN [ok |-> TRUE, counts |-> <<>>]
    ELSE LET a == Head(actions)
             fail == [ok |-> FALSE, counts |-> <<>>]
         IN  IF a.kind = "store"
             THEN IF pat # <<>> /\ pat[1] = "A"
                  THEN LET r == MatchGroups(Tail(actions), Tail(pat))
                       IN  IF r.ok THEN [ok |-> TRUE, counts |-> <<1>> \o r.counts] ELSE fail
                  ELSE fail
             ELSE IF a.kind = "remainder"
             THEN LET ns == {n \in 0..Len(pat) :
                                MatchGroups(Tail(actions), SubSeq(pat, n + 1, Len(pat))).ok}
                  IN  IF ns = {} THEN fail
                      ELSE [ok |-> TRUE,
                            counts |-> <<Max(ns)>> \o
                               MatchGroups(Tail(actions),
                                           SubSeq(pat, Max(ns) + 1, Len(pat))).counts]
             ELSE LET r == MatchGroups(Tail(actions), pat)
                  IN  IF r.ok THEN [ok |-> TRUE, counts |-> <<0>> \o r.counts] ELSE fail

\* ArgumentParser._match_arguments_partial: the longest prefix of the
\* positionals whose patterns match
MatchPartial(actions, pat) ==
    LET good == {i \in 1..Len(actions) : MatchGroups(SubSeq(actions, 1, i), pat).ok}
    IN  IF good = {} THEN <<>>
        ELSE MatchGroups(SubSeq(actions, 1, Max(good)), pat).counts

\* ArgumentParser._get_values: the value stored for an action and its argument strings
GetValues(action, strings) ==
    IF action.kind = "store" THEN strings[1]
    ELSE IF action.kind = "remainder" THEN strings
    ELSE TRUE

\* consume_positionals(start_index) of _parse_known_args; st is the state of
\* the parse: start, positionals (indices of the actions not yet parsed), ns,
\* seen, extras, and exit ("", "help" or "error") with its message
RECURSIVE TakePositionals(_, _, _, _)
TakePositionals(parser, argv, counts, st) ==
    IF counts = <<>> THEN st
    ELSE LET action == parser[Head(st.positionals)]
             strings == SubSeq(argv, st.start, st.start + Head(counts) - 1)
         IN  TakePositionals(parser, argv, Tail(counts),
                [st EXCEPT !.start = @ + Head(counts),
                           !.positionals = Tail(@),
                           !.seen = @ \cup {Head(st.positionals)},
                           !.ns = (action.dest :> GetValues(action, strings)) @@ @])

ConsumePositionals(parser, argv, st) ==
    LET pat == ArgStringsPattern(argv)
        counts == MatchPartial([i \in 1..Len(st.positionals) |-> parser[st.positionals[i]]],
                               SubSeq(pat, st.start, Len(pat)))
    IN  TakePositionals(parser, argv, counts, st)

\* consume_optional(start_index) of _parse_known_args
ConsumeOptional(parser, argv, st) ==
    LET token == argv[st.start]
        pat == ArgStringsPattern(argv)
        known == {i \in 1..Len(parser) : token \in parser[i].option_strings}
    IN  IF known = {}
        THEN [st EXCEPT !.extras = Append(@, token), !.start = @ + 1]
        ELSE LET i == Max(known)
                 action == parser[i]
             IN  IF action.kind = "help"
                 THEN [st EXCEPT !.exit = "help"]
                 ELSE IF action.kind = "store_true"
                 THEN [st EXCEPT !.start = @ + 1, !.seen = @ \cup {i},
                                 !.ns = (action.dest :> TRUE) @@ @]
                 ELSE IF action.kind = "remainder"
                 THEN [st EXCEPT !.start = Len(argv) + 1, !.seen = @ \cup {i},
                                 !.ns = (action.dest :> SubSeq(argv, st.start + 1, Len(argv)))
                                        @@ @]
                 ELSE IF st.start + 1 <= Len(argv) /\ pat[st.start + 1] = "A"
                      THEN [st EXCEPT !.start = @ + 2, !.seen = @ \cup {i},
                                      !.ns = (action.dest :> argv[st.start + 1]) @@ @]
                      ELSE [st EXCEPT !.exit = "error",
                                      !.message = "expected one argument"]

\* the loop of _parse_known_args: 'consume Positionals and Optionals
\* alternately, until we have passed the last option string'
RECURSIVE ParseLoop(_, _, _)
ParseLoop(parser, argv, st) ==
    LET option_string_indices == {i \in 1..Len(argv) : argv[i] \in DashTokens}
        later == {i \in option_string_indices : i >= st.start}
    IN  IF st.exit # "" \/ later = {} THEN st
        ELSE LET next == Min(later)
             IN  IF st.start # next
                 THEN LET st1 == ConsumePositionals(parser, argv, st)
                      IN  IF st1.start > st.start
                          THEN ParseLoop(parser, argv, st1)
                          ELSE ParseLoop(parser, argv,
                                  ConsumeOptional(parser, argv,
                                     [st1 EXCEPT !.extras = @ \o SubSeq(argv, st1.start, next - 1),
                                                 !.start = next]))
                 ELSE ParseLoop(parser, argv, ConsumeOptional(parser, argv, st))

\* the defaults parse_known_args sets on the namespace before parsing
Defaults(parser) ==
    LET idx == {i \in 1..Len(parser) : parser[i].kind # "help"}
    IN  [d \in {parser[i].dest : i \in idx} |->
            IF \E i \in idx : parser[i].dest = d /\ parser[i].kind = "store_true"
            THEN FALSE ELSE None]

\* parser.parse_args(argv, namespace): exit is "ok" (the namespace is
\* returned), "help" (the help action printed the help and exited) or "error"
\* (parser.error(message) was called)
ParserParseArgs(parser, argv, ns0) ==
    LET st0 == [start |-> 1,
                positionals |-> LET P == {i \in 1..Len(parser) : parser[i].option_strings = {}}
                                IN  [k \in 1..Cardinality(P) |->
                                        CHOOSE i \in P : Cardinality({j \in P : j < i}) = k - 1],
                ns |-> ns0 @@ Defaults(parser),
                seen |-> {},
                extras |-> <<>>,
                exit |-> "",
                message |-> ""]
        st1 == ParseLoop(parser, argv, st0)
        st2 == IF st1.exit # "" THEN st1 ELSE ConsumePositionals(parser, argv, st1)
        extras == st2.extras \o SubSeq(argv, st2.start, Len(argv))
        required == {i \in 1..Len(parser) : i \notin st2.seen /\ parser[i].required}
    IN  IF st2.exit # "" THEN [exit |-> st2.exit, message |-> st2.message, ns |-> st2.ns]
        ELSE IF required # {}
        THEN [exit |-> "error", message |-> "the following arguments are required",
              ns |-> st2.ns]
        ELSE IF extras # <<>>
        THEN [exit |-> "error", message |-> "unrecognized arguments", ns |-> st2.ns]
        ELSE [exit |-> "ok", message |-> "", ns |-> st2.ns]

(***************************************************************************)
(* bot.CLIParser.format_help                                               *)
(***************************************************************************)

\* 'while tmp_node.keyword: keywords.insert(1, tmp_node.keyword)': the truthy
\* keywords from the node up, outermost first
RECURSIVE KeywordChain(_)
KeywordChain(n) ==
    IF n = NoNode \/ nodes[n].keyword \in {None, ""} THEN <<>>
    ELSE KeywordChain(nodes[n].parent) \o << nodes[n].keyword >>

\* " | ".join(options) raises TypeError when a keyword is None
FormatHelpRaises(n) ==
    \E i \in 1..Len(nodes[n].subtree) : nodes[nodes[n].subtree[i]].keyword = None

\* a formatter that renders the node's own arguments after its child keywords
FormatHelpWithArgs(n) ==
    LET keywords == << "<bot>" >> \o KeywordChain(n)
        valid_end_of_chain == nodes[n].command # None
        sub == nodes[n].subtree
        brace_chars == IF valid_end_of_chain THEN << "[", "]" >> ELSE << "{", "}" >>
        options == IF sub # <<>>
                   THEN [i \in 1..Len(sub) |-> nodes[sub[i]].keyword]
                   ELSE [i \in 1..Len(nodes[n].args) |->
                            IF nodes[n].args[i].type = "bool"
                            THEN nodes[n].args[i].name
                            ELSE nodes[n].args[i].name \o " ..."]
        own == [i \in 1..Len(nodes[n].args) |-> "[" \o nodes[n].args[i].name \o "]"]
        opts_string == IF sub # <<>>
                       THEN Join(<< brace_chars[1] \o Join(options, " | ") \o brace_chars[2] >>
                                 \o own, " ")
                       ELSE Join([i \in 1..Len(options) |-> "[" \o options[i] \o "]"], " ")
    IN  Join(keywords \o << opts_string >>, " ")

\* format_help(node), where it does not raise
FormatHelp(n) ==
    LET keywords == << "<bot>" >> \o KeywordChain(n)
        valid_end_of_chain == nodes[n].command # None
        sub == nodes[n].subtree
        brace_chars == IF valid_end_of_chain THEN << "[", "]" >> ELSE << "{", "}" >>
        options == IF sub # <<>>
                   THEN [i \in 1..Len(sub) |-> nodes[sub[i]].keyword]
                   ELSE [i \in 1..Len(nodes[n].args) |->
                            IF nodes[n].args[i].type = "bool"
                            THEN nodes[n].args[i].name
                            ELSE nodes[n].args[i].name \o " ..."]
        opts_string == IF sub # <<>>
                       THEN brace_chars[1] \o Join(options, " | ") \o brace_chars[2]
                       ELSE Join([i \in 1..Len(options) |-> "[" \o options[i] \o "]"], " ")
    IN  Join(keywords \o << opts_string >>, " ")

(***************************************************************************)
(* After the walk                                                          *)
(***************************************************************************)

\* bot: 'if show_help: print(self.format_help(node)); sys.exit(0)'
BotShowHelp ==
    /\ pc = "walked" /\ frontend = "bot"
    /\ show_help
    /\ IF FormatHelpRaises(node)
       THEN /\ raised' = "TypeError"
            /\ UNCHANGED << stdout, exit_status >>
       ELSE /\ stdout' = Append(stdout, [kind |-> "usage", node |-> node,
                                         text |-> FormatHelp(node)])
            /\ exit_status' = 0
            /\ UNCHANGED raised
    /\ pc' = "done"
    /\ UNCHANGED << schemaVars, callVars, remaining_args, consumed_args, node, show_help,
                    argv_for_argparse, namespace, returned, stderr >>

\* bot: 'argv_for_argparse = ["--" + a if a == arg.name else a ...]' for every
\* argument that is not positional, in the order of node.args
RECURSIVE AddDashes(_, _)
AddDashes(argv, schema_args) ==
    IF schema_args = <<>> THEN argv
    ELSE LET arg == Head(schema_args)
         IN  AddDashes(IF arg.positional THEN argv
                       ELSE [i \in 1..Len(argv) |->
                                IF argv[i] = arg.name THEN "--" \o argv[i] ELSE argv[i]],
                       Tail(schema_args))

\* a binding that returns as remaining_args only what argparse left unbound,
\* which on success is nothing
BotBindUnboundOnly ==
    /\ pc = "walked" /\ frontend = "bot"
    /\ ~show_help
    /\ LET argv == AddDashes(remaining_args, nodes[node].args)
           r == ParserParseArgs(ParserFor(node, FALSE), argv, namespace)
       IN  /\ argv_for_argparse' = << argv >>
           /\ IF r.exit = "error"
              THEN /\ stderr' = Append(stderr, [kind |-> "error", node |-> node,
                                                text |-> r.message])
                                \o (IF FormatHelpRaises(node) THEN <<>>
                                    ELSE << [kind |-> "usage", node |-> node,
                                             text |-> FormatHelp(node)] >>)
                   /\ raised' = IF FormatHelpRaises(node) THEN "TypeError" ELSE None
                   /\ exit_status' = IF FormatHelpRaises(node) THEN NoExit ELSE 2
                   /\ UNCHANGED << namespace, returned >>
              ELSE /\ namespace' = ("command" :> nodes[node].command)
                                   @@ ("remaining_args" :> <<>>) @@ r.ns
                   /\ returned' = TRUE
                   /\ UNCHANGED << stderr, raised, exit_status >>
    /\ pc' = "done"
    /\ UNCHANGED << schemaVars, callVars, remaining_args, consumed_args, node, show_help,
                    stdout >>

\* bot: the rest of parse_args when help is not shown: build the parser, parse,
\* and either report the error and exit with 2 or return the namespace
BotBind ==
    /\ pc = "walked" /\ frontend = "bot"
    /\ ~show_help
    /\ LET argv == AddDashes(remaining_args, nodes[node].args)
           r == ParserParseArgs(ParserFor(node, FALSE), argv, namespace)
       IN  /\ argv_for_argparse' = << argv >>
           /\ IF r.exit = "error"
              THEN /\ stderr' = Append(stderr, [kind |-> "error", node |-> node,
                                                text |-> r.message])
                                \o (IF FormatHelpRaises(node) THEN <<>>
                                    ELSE << [kind |-> "usage", node |-> node,
                                             text |-> FormatHelp(node)] >>)
                   /\ raised' = IF FormatHelpRaises(node) THEN "TypeError" ELSE None
                   /\ exit_status' = IF FormatHelpRaises(node) THEN NoExit ELSE 2
                   /\ UNCHANGED << namespace, returned >>
              ELSE /\ namespace' = ("command" :> nodes[node].command)
                                   @@ ("remaining_args" :> remaining_args) @@ r.ns
                   /\ returned' = TRUE
                   /\ UNCHANGED << stderr, raised, exit_status >>
    /\ pc' = "done"
    /\ UNCHANGED << schemaVars, callVars, remaining_args, consumed_args, node, show_help,
                    stdout >>

\* standard: subparsers.add_parser(subnode.keyword) is called for every child
\* when help was recorded; argparse from Python 3.11 on refuses a name it
\* already has (ArgumentError 'conflicting subparser'), earlier versions accept it
AddParserConflict(n) ==
    \E i, j \in 1..Len(nodes[n].subtree) :
        i < j /\ nodes[nodes[n].subtree[i]].keyword = nodes[nodes[n].subtree[j]].keyword

\* a strict binding whose parser raises a parse error to the caller instead of
\* printing and exiting
StdBindRaises(refuses) ==
    /\ pc = "walked" /\ frontend = "standard"
    /\ refuses => (show_help /\ AddParserConflict(node))
    /\ LET argv == IF show_help THEN << "--help" >> \o remaining_args ELSE remaining_args
           prog_args == IF prog # None THEN << prog >> \o consumed_args ELSE consumed_args
           subparsers == nodes[node].subtree # <<>> /\ show_help
           r == ParserParseArgs(ParserFor(node, TRUE), argv, <<>>)
       IN  /\ remaining_args' = argv
           /\ IF refuses
              THEN /\ raised' = "ArgumentError"
                   /\ UNCHANGED << argv_for_argparse, namespace, returned, stdout, stderr,
                                   exit_status >>
              ELSE /\ argv_for_argparse' = << argv >>
                   /\ IF r.exit = "help"
                      THEN IF subparsers /\ FormatHelpRaises(node)
                           THEN /\ raised' = "TypeError"
                                /\ UNCHANGED << namespace, returned, stdout, stderr,
                                                exit_status >>
                           ELSE /\ stdout' = Append(stdout,
                                        [kind |-> "help", node |-> node,
                                         text |-> Join(prog_args, " ")])
                                /\ exit_status' = 0
                                /\ UNCHANGED << namespace, returned, stderr, raised >>
                      ELSE IF r.exit = "error"
                      THEN /\ raised' = "ArgParseError"
                           /\ UNCHANGED << namespace, returned, stdout, stderr,
                                           exit_status >>
                      ELSE /\ namespace' = ("command" :> nodes[node].command)
                                           @@ ("remaining_args" :> argv) @@ r.ns
                           /\ returned' = TRUE
                           /\ UNCHANGED << stdout, stderr, exit_status, raised >>
    /\ pc' = "done"
    /\ UNCHANGED << schemaVars, callVars, consumed_args, node, show_help >>

\* standard: the rest of parse_args: insert '--help' when help was recorded,
\* build the parser for the node reached, parse; argparse prints and exits on
\* help and on an error. refuses is whether add_parser refuses a repeated name.
StdBind(refuses) ==
    /\ pc = "walked" /\ frontend = "standard"
    /\ refuses => (show_help /\ AddParserConflict(node))
    /\ LET argv == IF show_help THEN << "--help" >> \o remaining_args ELSE remaining_args
           prog_args == IF prog # None THEN << prog >> \o consumed_args ELSE consumed_args
           subparsers == nodes[node].subtree # <<>> /\ show_help
           r == ParserParseArgs(ParserFor(node, TRUE), argv, <<>>)
       IN  /\ remaining_args' = argv
           /\ IF refuses
              THEN /\ raised' = "ArgumentError"
                   /\ UNCHANGED << argv_for_argparse, namespace, returned, stdout, stderr,
                                   exit_status >>
              ELSE /\ argv_for_argparse' = << argv >>
                   /\ IF r.exit = "help"
                      THEN IF subparsers /\ FormatHelpRaises(node)
                           THEN /\ raised' = "TypeError"
                                /\ UNCHANGED << namespace, returned, stdout, stderr,
                                                exit_status >>
                           ELSE /\ stdout' = Append(stdout,
                                        [kind |-> "help", node |-> node,
                                         text |-> Join(prog_args, " ")])
                                /\ exit_status' = 0
                                /\ UNCHANGED << namespace, returned, stderr, raised >>
                      ELSE IF r.exit = "error"
                      THEN /\ stderr' = stderr \o
                                 << [kind |-> "usage", node |-> node,
                                     text |-> Join(prog_args, " ")],
                                    [kind |-> "error", node |-> node, text |-> r.message] >>
                           /\ exit_status' = 2
                           /\ UNCHANGED << namespace, returned, stdout, raised >>
                      ELSE /\ namespace' = ("command" :> nodes[node].command)
                                           @@ ("remaining_args" :> argv) @@ r.ns
                           /\ returned' = TRUE
                           /\ UNCHANGED << stdout, stderr, exit_status, raised >>
    /\ pc' = "done"
    /\ UNCHANGED << schemaVars, callVars, consumed_args, node, show_help >>

\* the values of the optional constructor argument prog
Progs == {None, "run.sh"}

\* the token lists parse_args can be called with in the current state: the
\* parser exists once the schema is built
Callable == IF pc = "built" THEN ArgLists ELSE {}

Next ==
    \/ \E i \in 1..Len(RawConfigs) : FromDict(RawConfigs[i])
    \/ \E T \in Callable, p \in Progs : StdParseArgs(T, p)
    \/ StdWalkHelp
    \/ StdWalkKeyword
    \/ StdWalkBreak
    \/ StdWalkExit
    \/ \E refuses \in BOOLEAN : StdBind(refuses)
    \/ \E T \in Callable : BotParseArgs(T)
    \/ BotWalkKeyword
    \/ BotWalkBreak
    \/ BotWalkExit
    \/ BotShowHelp
    \/ BotBind

Spec == Init /\ [][Next]_vars

\* one evaluation of the loop condition and, where it holds, of the loop body
WalkStep ==
    \/ StdWalkHelp \/ StdWalkKeyword \/ StdWalkBreak \/ StdWalkExit
    \/ BotWalkKeyword \/ BotWalkBreak \/ BotWalkExit

\* the state in which the loop of parse_args is entered: a tree from_dict
\* built, and the call's locals as StdParseArgs or BotParseArgs leave them
WalkInit ==
    \E i \in 1..Len(RawConfigs), T \in ArgLists, f \in {"standard", "bot"}, p \in Progs :
        LET r == RootFromDict(RawConfigs[i])
        IN  /\ r.err = "ok"
            /\ f = "bot" => p = None
            /\ pc = "walk"
            /\ data = RawConfigs[i]
            /\ schema_error = None
            /\ nodes = r.nodes
            /\ schema = r.root
            /\ frontend = f
            /\ prog = p
            /\ args = T
            /\ remaining_args = IF f = "bot" THEN DetectHelp(T).remaining_args ELSE T
            /\ show_help = IF f = "bot" THEN DetectHelp(T).show_help ELSE FALSE
            /\ node = r.root
            /\ consumed_args = <<>>
            /\ argv_for_argparse = <<>>
            /\ namespace = <<>>
            /\ returned = FALSE
            /\ stdout = <<>>
            /\ stderr = <<>>
            /\ exit_status = NoExit
            /\ raised = None

\* the loop on its own: parse_args is sequential code, once in the loop it
\* keeps executing
WalkSpec == WalkInit /\ [][WalkStep]_vars /\ WF_vars(WalkStep)

(***************************************************************************)
(* Properties                                                              *)
(***************************************************************************)

HelpTokens == {"-h", "--help"}

IsHelpToken(t) == t \in HelpTokens

NotHelpToken(t) == t \notin HelpTokens

\* the configuration the schema was built from is the main one
OnMain == pc # "init" /\ data = CfgMain

\* C1 as stated: when the keyword walk has finished, consumed_args followed by
\* remaining_args is exactly the token list parse_args was called with, help
\* tokens included.
C1_PrefixExact ==
    pc = "walked" => consumed_args \o remaining_args = args

\* the number of tokens the walk has taken off the front of the list
Scanned == Len(args) - Len(remaining_args)

\* the input without the permissive help markers: a leading 'help', and a
\* trailing '?' or 'help' of what is then left
BotStripped ==
    LET lead == IF args # <<>> /\ args[1] = "help" THEN 1 ELSE 0
        trail == IF Len(args) > lead /\ args[Len(args)] \in {"?", "help"} THEN 1 ELSE 0
    IN  SubSeq(args, 1 + lead, Len(args) - trail)

\* C1 amended: when the keyword walk has finished, consumed_args followed by
\* remaining_args is the token list without the help tokens the front-end took
\* out, in the original order: strict takes out every '-h'/'--help' among the
\* tokens the walk scanned, permissive a leading 'help' and a trailing
\* '?'/'help'.  When no help token was taken out it is the token list exactly.
C1_PrefixConsumption ==
    pc = "walked" =>
        /\ frontend = "standard" =>
              /\ remaining_args = SubSeq(args, Scanned + 1, Len(args))
              /\ consumed_args = SelectSeq(SubSeq(args, 1, Scanned), NotHelpToken)
        /\ frontend = "bot" => consumed_args \o remaining_args = BotStripped
        /\ ~show_help => consumed_args \o remaining_args = args

\* C1 witness: a strict walk that consumed a keyword, scanned past a help token
\* and left a token over.
C1_Witness ==
    /\ pc = "walked" /\ frontend = "standard"
    /\ show_help /\ consumed_args # <<>> /\ remaining_args # <<>>

\* the walk is at a token that is not the keyword of any child of the current node
AtNonKeyword ==
    pc = "walk" /\ WalkCondition /\ remaining_args[1] \notin DOMAIN Keywords(node)

\* the walk ends here, the current node staying the terminal node and the
\* token staying first of the remaining tokens
WalkStops ==
    /\ pc' = "walked"
    /\ node' = node
    /\ consumed_args' = consumed_args
    /\ remaining_args' = remaining_args

\* C2 as stated: in both front-ends the walk stops at the first unconsumed
\* token that is not the keyword of a child of the current node.
C2_StopsAtAnyNonKeyword ==
    [][AtNonKeyword => WalkStops]_vars

\* the list handed to parser.parse_args when binding starts from this state
HandedToBinding ==
    IF frontend = "standard"
    THEN argv_for_argparse'[1] =
            (IF show_help THEN << "--help" >> ELSE <<>>) \o remaining_args
    ELSE /\ ~show_help
         /\ remaining_args' = remaining_args
         /\ Len(argv_for_argparse'[1]) = Len(remaining_args)
         /\ \A i \in 1..Len(remaining_args) :
               argv_for_argparse'[1][i] \in {remaining_args[i], "--" \o remaining_args[i]}

\* C2 amended: the walk stops at the first unconsumed token that is neither the
\* keyword of a child of the current node nor, in the strict front-end, a
\* '-h'/'--help' token (strict takes that one off and scans on).  The stop is
\* not an error, the current node is the terminal node and the token is the
\* first of the remaining tokens; nothing is matched as a keyword afterwards.
\* Binding gets the remaining tokens in order: strict with '--help' put in
\* front when a help token was scanned, permissive with a token that equals an
\* option's name prefixed by '--'.  On root->{sub->{a}} the input [sub, c] ends
\* at sub with consumed [sub] and remaining [c].
C2_EarlyTermination ==
    /\ [][(AtNonKeyword /\ ~(frontend = "standard" /\ IsHelpToken(remaining_args[1])))
            => (WalkStops /\ raised' = None /\ exit_status' = NoExit)]_vars
    /\ [][pc = "walked" => (node' = node /\ consumed_args' = consumed_args)]_vars
    /\ [][(pc = "walked" /\ argv_for_argparse' # <<>>) => HandedToBinding]_vars
    /\ []((pc = "walked" /\ OnMain /\ args = << "sub", "c" >>)
            => /\ nodes[node].keyword = "sub"
               /\ consumed_args = << "sub" >>
               /\ remaining_args = << "c" >>)

\* C2 witness: the walk over [sub, c] has stopped at sub with c left over.
C2_Witness ==
    /\ pc = "walked" /\ OnMain /\ args = << "sub", "c" >>
    /\ nodes[node].keyword = "sub" /\ remaining_args = << "c" >>

\* the original input asks for help in the permissive way
HelpRequested ==
    args # <<>> /\ (args[1] = "help" \/ args[Len(args)] \in {"?", "help"})

\* a line of usage text for the node
UsageFor(n) == [kind |-> "usage", node |-> n, text |-> FormatHelp(n)]

\* C3: in the permissive parse_args help is taken iff the original input has
\* 'help' first or '?'/'help' last; the decision is made before the walk and
\* the markers are stripped; with help the usage of the terminal node is
\* rendered and binding is never attempted, without it binding is attempted on
\* the remaining tokens as they are.  On the main schema [help] and [sub, ?]
\* render help, [sub, help, more] binds 'help' and 'more' as literal tokens.
C3_HelpPrecedence ==
    (frontend = "bot" /\ pc \in {"walk", "walked", "done"}) =>
        /\ show_help <=> HelpRequested
        /\ (pc = "walk" /\ consumed_args = <<>>) => remaining_args = BotStripped
        /\ pc # "done" => (argv_for_argparse = <<>> /\ stdout = <<>>)
        /\ (pc = "done" /\ HelpRequested) =>
              /\ argv_for_argparse = <<>>
              /\ ~returned
              /\ raised = None => (stdout = << UsageFor(node) >> /\ exit_status = 0)
        /\ (pc = "done" /\ ~HelpRequested) =>
              /\ argv_for_argparse # <<>>
              /\ stdout = <<>>
        /\ (pc = "done" /\ OnMain /\ args = << "help" >>) =>
              (stdout # <<>> /\ stdout[1].text = "<bot> {status | sub}")
        /\ (pc = "done" /\ OnMain /\ args = << "sub", "?" >>) =>
              (stdout # <<>> /\ stdout[1].text = "<bot> sub [a]")
        /\ (pc = "done" /\ OnMain /\ args = << "sub", "help", "more" >>) =>
              /\ returned
              /\ argv_for_argparse = << << "help", "more" >> >>
              /\ namespace["rest"] = << "help", "more" >>
              /\ namespace["remaining_args"] = << "help", "more" >>

\* C3 witness: 'help' in the middle of the input went to binding.
C3_Witness ==
    /\ pc = "done" /\ frontend = "bot" /\ OnMain
    /\ args = << "sub", "help", "more" >>
    /\ returned /\ ~show_help

\* the node the keywords of a token list lead to from n, one token at a time
RECURSIVE Descend(_, _)
Descend(n, toks) ==
    IF toks = <<>> \/ nodes[n].subtree = <<>> THEN n
    ELSE IF Head(toks) \in DOMAIN Keywords(n)
         THEN Descend(Keywords(n)[Head(toks)], Tail(toks))
         ELSE n

\* the node the input leads to when its '-h'/'--help' tokens are left out
FinalNode == Descend(schema, SelectSeq(args, NotHelpToken))

\* C4: in the strict parse_args a '-h'/'--help' token met by the keyword scan,
\* at whatever position, is taken off and recorded and the scan goes on with
\* the same node; the keywords after it are still matched, so the walk ends
\* at the node the keywords of the input lead to; and the help request
\* ('--help' in front of the remaining tokens) goes to the parser of that
\* final node, whose help is what is printed.
C4_StrictHelp ==
    /\ [][(frontend = "standard" /\ pc = "walk" /\ WalkCondition
             /\ IsHelpToken(remaining_args[1]))
            => /\ show_help'
               /\ remaining_args' = Tail(remaining_args)
               /\ pc' = "walk"
               /\ node' = node
               /\ consumed_args' = consumed_args]_vars
    /\ []((frontend = "standard" /\ pc \in {"walked", "done"}) => node = FinalNode)
    /\ []((frontend = "standard" /\ pc = "walked")
            => (show_help <=> \E i \in 1..Scanned : IsHelpToken(args[i])))
    /\ []((frontend = "standard" /\ pc = "done" /\ show_help)
            => /\ remaining_args[1] = "--help"
               /\ ~returned
               /\ stderr = <<>>
               /\ raised = None =>
                     /\ exit_status = 0
                     /\ Len(stdout) = 1
                     /\ stdout[1].kind = "help"
                     /\ stdout[1].node = FinalNode)

\* C4 witness: [sub, -h, a] printed the help of node a, not of sub.
C4_Witness ==
    /\ pc = "done" /\ frontend = "standard" /\ OnMain
    /\ args = << "sub", "-h", "a" >>
    /\ exit_status = 0 /\ stdout # <<>> /\ nodes[stdout[1].node].keyword = "a"

\* the attribute names of a namespace returned for node n
NamespaceNames(n) ==
    {"command", "remaining_args"}
    \cup {Replace(nodes[n].args[i].name) : i \in 1..Len(nodes[n].args)}

C6_PermissiveOutcomes ==
    (frontend = "bot" /\ pc = "done") =>
        IF show_help
        THEN /\ stdout = << UsageFor(node) >>
             /\ exit_status = 0
             /\ argv_for_argparse = <<>>
             /\ ~returned /\ stderr = <<>> /\ raised = None
        ELSE /\ argv_for_argparse # <<>>
             /\ stdout = <<>>
             /\ raised = None
             /\ \/ /\ returned
                   /\ exit_status = NoExit
                   /\ stderr = <<>>
                   /\ {"command", "remaining_args"} \subseteq DOMAIN namespace
                \/ /\ ~returned
                   /\ exit_status \notin {NoExit, 0}
                   /\ Len(stderr) = 2
                   /\ stderr[1].kind = "error"
                   /\ stderr[2] = UsageFor(node)

\* what argparse makes of the list the strict front-end hands it
StdParseResult == ParserParseArgs(ParserFor(node, TRUE), remaining_args, <<>>)

\* C7 as stated: in the strict parse_args malformed arguments for the terminal
\* node are raised to the caller; nothing is printed and the process does not exit.
C7_RaisedToCaller ==
    (frontend = "standard" /\ pc = "done" /\ StdParseResult.exit = "error") =>
        /\ raised # None
        /\ stderr = <<>> /\ stdout = <<>>
        /\ exit_status = NoExit

\* C7 amended: in the strict parse_args malformed arguments for the terminal
\* node (an unrecognised token, a missing positional, a missing option value)
\* make argparse print the usage and the error to stderr and exit the process
\* with status 2; nothing is returned and no exception other than that exit
\* reaches the caller.  Status 2 comes from such input only.
C7_StrictFailure ==
    (frontend = "standard" /\ pc = "done") =>
        /\ StdParseResult.exit = "error" =>
              /\ exit_status = 2
              /\ Len(stderr) = 2
              /\ stderr[1].kind = "usage" /\ stderr[1].node = node
              /\ stderr[2].kind = "error" /\ stderr[2].text = StdParseResult.message
              /\ stdout = <<>> /\ ~returned /\ raised = None
        /\ exit_status = 2 => StdParseResult.exit = "error"
        /\ (OnMain /\ args = << "status", "c" >>) =>
              (exit_status = 2 /\ stderr[2].text = "unrecognized arguments")
        /\ (OnMain /\ args = << "status", "--x" >>) =>
              (exit_status = 2 /\ stderr[2].text = "unrecognized arguments")
        /\ (OnMain /\ args = << "sub", "a" >>) =>
              (exit_status = 2 /\ stderr[2].text = "the following arguments are required")
        /\ (OnMain /\ args = << "sub", "--x" >>) =>
              (exit_status = 2 /\ stderr[2].text = "expected one argument")

\* C7 witness: [sub, a] lacks the positional of node a; strict printed and exited.
C7_Witness ==
    /\ pc = "done" /\ frontend = "standard" /\ OnMain
    /\ args = << "sub", "a" >>
    /\ exit_status = 2 /\ stderr # <<>>

\* from_dict returned a tree
Built == pc # "init" /\ schema_error = None

\* C8: a schema in which two nodes of one subtree list share a keyword is
\* not built, so in a built tree the children of a node have distinct keywords.
C8_SiblingKeywordsUnique ==
    Built =>
        \A n \in 1..Len(nodes) :
            \A i, j \in 1..Len(nodes[n].subtree) :
                i # j => nodes[nodes[n].subtree[i]].keyword # nodes[nodes[n].subtree[j]].keyword

\* C9: a root given a keyword is not built, a sub-node whose keyword is
\* absent, None or empty is not built; in a built tree the root's keyword is
\* None and every other node's keyword is a non-empty string.
C9_RootSubShape ==
    pc # "init" =>
        /\ "keyword" \in DOMAIN data => schema_error # None
        /\ Built =>
              /\ nodes[schema].keyword = None
              /\ \A n \in 1..Len(nodes) :
                    n # schema => nodes[n].keyword \notin {None, ""}

\* the values an argument with an enum may be bound to
Allowed(arg) == {arg.enum[1][k] : k \in 1..Len(arg.enum[1])}

\* C10: in both front-ends a value outside the enum of an argument of the
\* terminal node is refused: a returned result has for such an argument a
\* member of the enum (or None when the option was not given).  With x of
\* enum {a, b}, [sub, --x, c] fails and [sub, --x, a] gives x = a.
C10_EnumRejection ==
    (pc = "done" /\ returned) =>
        /\ \A i \in 1..Len(nodes[node].args) :
              LET arg == nodes[node].args[i]
              IN  arg.enum # <<>> =>
                     namespace[Replace(arg.name)] \in Allowed(arg) \cup {None}
        /\ (OnMain /\ args = << "sub", "--x", "a" >>) => namespace["x"] = "a"
        /\ ~(OnMain /\ args = << "sub", "--x", "c" >>)

\* the usage texts the permissive front-end has emitted
BotUsages ==
    IF frontend = "bot"
    THEN {stdout[i] : i \in 1..Len(stdout)}
         \cup {stderr[i] : i \in {j \in 1..Len(stderr) : stderr[j].kind = "usage"}}
    ELSE {}

\* the keywords of the children of n, in order
ChildKeywords(n) == [i \in 1..Len(nodes[n].subtree) |-> nodes[nodes[n].subtree[i]].keyword]

\* the rendering of one argument of a node without children
Bracketed(arg) == IF arg.type = "bool" THEN "[" \o arg.name \o "]"
                  ELSE "[" \o arg.name \o " ...]"

\* the text after the keyword chain in a usage text for node n
Shape(n) ==
    IF nodes[n].subtree # <<>>
    THEN IF nodes[n].command = None
         THEN "{" \o Join(ChildKeywords(n), " | ") \o "}"
         ELSE "[" \o Join(ChildKeywords(n), " | ") \o "]"
    ELSE Join([i \in 1..Len(nodes[n].args) |-> Bracketed(nodes[n].args[i])], " ")

\* C11: every usage text format_help produced is the keyword chain followed
\* by: for a node with children the child keywords joined by ' | ', in braces
\* when the node has no command and in brackets when it has one, and none of
\* its own arguments; for a node without children its arguments in declaration
\* order, '[name ...]' for a non-flag and '[name]' for a flag, space-joined.
C11_HelpShape ==
    \A u \in BotUsages :
        /\ u.text = Join(<< "<bot>" >> \o KeywordChain(u.node) \o << Shape(u.node) >>, " ")
        /\ (OnMain /\ u.node = schema) => u.text = "<bot> {status | sub}"
        /\ (OnMain /\ nodes[u.node].keyword = "sub") => u.text = "<bot> sub [a]"
        /\ (OnMain /\ nodes[u.node].keyword = "status") => u.text = "<bot> status [verbose]"
        /\ (OnMain /\ nodes[u.node].keyword = "a") => u.text = "<bot> sub a [player-name ...]"
        /\ data = CfgFlat => u.text = "<bot> [verbose] [x ...] [more ...]"

\* C11 witness: help was printed for node sub, which has a command, a child
\* and arguments of its own.
C11_Witness ==
    /\ pc = "done" /\ frontend = "bot" /\ OnMain /\ show_help
    /\ nodes[node].keyword = "sub"
    /\ nodes[node].args # <<>>
    /\ stdout = << [kind |-> "usage", node |-> node, text |-> "<bot> sub [a]"] >>

\* the argument declarations of a raw configuration, at every level
RECURSIVE ArgDecls(_)
ArgDecls(cfg) ==
    LET as == Get(cfg, "args", <<>>)
        sub == Get(cfg, "subtree", <<>>)
    IN  {as[i] : i \in 1..Len(as)}
        \cup UNION {ArgDecls(sub[i]) : i \in 1..Len(sub)}

\* the type names the schema accepts
KnownTypes == {"integer", "string", "float", "flag", "text"}

\* the arguments of the built tree
BuiltArgs == UNION {{nodes[n].args[i] : i \in 1..Len(nodes[n].args)} : n \in 1..Len(nodes)}

\* C12: a configuration with an argument declaration whose 'type' is outside
\* {integer, string, float, flag, text} is refused when the schema is built
\* (ValueError) and no tree exists; in a built tree an argument declared
\* without a 'type' key is a String argument.
C12_UnknownType ==
    pc # "init" =>
        /\ (\E d \in ArgDecls(data) : "type" \in DOMAIN d /\ d.type \notin KnownTypes) =>
              /\ pc = "schema_error"
              /\ schema_error # None
              /\ nodes = <<>> /\ schema = NoNode
        /\ data \in {CfgBadType, CfgBadTypeNested} => schema_error = "ValueError"
        /\ Built =>
              \A d \in ArgDecls(data) :
                  "type" \notin DOMAIN d =>
                      /\ \E a \in BuiltArgs : a.name = d.name
                      /\ \A a \in BuiltArgs : a.name = d.name => a.type = "str"

\* C12 witness: the configuration with type 'bogus' was refused.
C12_Witness ==
    /\ pc = "schema_error" /\ data = CfgBadType
    /\ schema_error = "ValueError" /\ nodes = <<>>

\* the keywords of the children of the current node
ChildKeywordSet == {nodes[nodes[node].subtree[i]].keyword : i \in 1..Len(nodes[node].subtree)}

\* one of the three situations in which the walk may end
StopSituation ==
    \/ nodes[node].subtree = <<>>
    \/ remaining_args = <<>>
    \/ remaining_args[1] \notin ChildKeywordSet

\* C13: in both front-ends the keyword walk, once begun, ends; when it ends
\* the current node has no children, or no tokens remain, or the next token
\* is no child's keyword, and ending changes neither node nor tokens; every
\* iteration that does not end the walk (the strict help-token iteration
\* included) removes exactly the first of the remaining tokens.
C13_WalkTermination ==
    /\ (pc = "walk") ~> (pc = "walked")
    /\ [][(pc = "walk" /\ pc' = "walked") =>
              /\ StopSituation
              /\ UNCHANGED << remaining_args, consumed_args, node >>]_vars
    /\ [][(pc = "walk" /\ pc' = "walk") =>
              /\ remaining_args # <<>>
              /\ remaining_args' = Tail(remaining_args)]_vars
    /\ [][pc = "walk" => pc' \in {"walk", "walked"}]_vars

\* C13 witness: the strict walk of [sub, -h, a] ended at node a after three
\* iterations, one of them on the help token.
C13_Witness ==
    /\ pc = "walked" /\ frontend = "standard" /\ OnMain
    /\ args = << "sub", "-h", "a" >>
    /\ consumed_args = << "sub", "a" >>
    /\ remaining_args = <<>> /\ show_help
    /\ nodes[node].subtree = <<>>

\* following at most k parent links from n arrives at the root
RECURSIVE ReachesRoot(_, _)
ReachesRoot(n, k) ==
    \/ n = schema
    \/ /\ k > 0
       /\ nodes[n].parent # NoNode
       /\ ReachesRoot(nodes[n].parent, k - 1)

\* the parent links of the built tree are those of its subtree lists
ParentLinks ==
    /\ nodes[schema].parent = NoNode
    /\ \A n \in 1..Len(nodes) :
          /\ \A i \in 1..Len(nodes[n].subtree) : nodes[nodes[n].subtree[i]].parent = n
          /\ n # schema =>
                /\ nodes[n].parent \in 1..Len(nodes)
                /\ \E i \in 1..Len(nodes[nodes[n].parent].subtree) :
                      nodes[nodes[n].parent].subtree[i] = n
          /\ ReachesRoot(n, Len(nodes))

\* C14: in a built tree the root has no parent, every child in a node's
\* subtree has that node as parent, and the parent links lead from every node
\* to the root; after the build no step of parse_args (format_help included)
\* changes a node's parent, keyword, command, args or subtree.
C14_ParentLinks ==
    /\ [](Built => ParentLinks)
    /\ [][pc # "init" => (nodes' = nodes /\ schema' = schema)]_vars

\* C14 witness: a parse over the three-level tree has finished with help
\* formatted for the innermost node, two parent links below the root.
C14_Witness ==
    /\ pc = "done" /\ frontend = "bot" /\ OnMain /\ show_help
    /\ nodes[node].keyword = "a"
    /\ nodes[nodes[node].parent].keyword = "sub"
    /\ nodes[nodes[node].parent].parent = schema
    /\ stdout # <<>>

\* the keywords on the path from the root down to n
RECURSIVE PathKeywords(_)
PathKeywords(n) ==
    IF n = schema \/ nodes[n].parent = NoNode THEN <<>>
    ELSE PathKeywords(nodes[n].parent) \o << nodes[n].keyword >>

\* C15: at every point of the walk, and after it, consumed_args is the
\* sequence of keywords on the path from the root to the current node, and
\* the keyword chain format_help builds for that node from the parent links
\* is the same sequence.
C15_ConsumedIsKeywordPath ==
    pc \in {"walk", "walked", "done"} =>
        /\ consumed_args = PathKeywords(node)
        /\ KeywordChain(node) = consumed_args

\* C16: in the permissive binding an option is bound only by a token
\* '--name': the tokens are handed to argparse as they were given, a token
\* equal to the bare name of an option does not set that option, and text
\* that equals an option's name is bound unchanged.
C16_StrictDashPrefix ==
    (frontend = "bot" /\ pc = "done" /\ ~show_help) =>
        /\ argv_for_argparse = << remaining_args >>
        /\ (OnMain /\ args = << "status", "verbose" >>) => ~returned
        /\ (data = CfgFlat /\ args = << "c", "verbose" >> /\ returned) =>
              /\ namespace["verbose"] = FALSE
              /\ namespace["more"] = << "c", "verbose" >>
====
